---- MODULE Spec2Model ----
(***************************************************************************)
(* Model of the email microservice: the process-wide database handle and   *)
(* its startup/shutdown lifecycle, the SMTP dispatch pipeline behind the   *)
(* three send endpoints and the health check, the history recorder, the    *)
(* template management endpoints and the HTTP Basic access guard.          *)
(*                                                                         *)
(* Every request handler is one action.  Python's cooperative scheduling   *)
(* lets handlers interleave only at an await; the only handler whose       *)
(* awaits separate a read of shared state from a write to it is            *)
(* create_template (find_one, then insert_one), so it is split in two.     *)
(* The variable "last" records the request handled by the latest action    *)
(* together with everything the handler did and answered.                  *)
(***************************************************************************)
EXTENDS Integers, Sequences, FiniteSets, TLC

VARIABLES
    app,              \* "stopped" | "running": lifecycle of the FastAPI process
    db_handle,        \* app.core.database._db: "none" | "connected"
    motor_bool,       \* what `if _db:` does on a database object: "true" | "raises"
    smtp_use_tls,     \* settings.smtp_use_tls
    email_templates,  \* the email_templates collection, in insertion order
    email_history,    \* the email_history collection, in insertion order
    next_uuid,        \* the next value uuid.uuid4() returns
    creating,         \* create_template requests suspended between find_one and insert_one
    last              \* the latest request, what its handler did and what it answered

vars == <<app, db_handle, motor_bool, smtp_use_tls, email_templates,
          email_history, next_uuid, creating, last>>

----------------------------------------------------------------------------
(* Bounds of the model *)

MaxUuid == 2        \* successful dispatches per run (uuid4 draws)
MaxTime == 2        \* datetime.utcnow() readings are 0..MaxTime
MaxDocs == 2        \* documents named by management requests, stored or being created
MaxSlots == 2       \* create_template requests in flight at once
MaxLimit == 3       \* limits tried on get_send_history
MaxRecords == 3     \* history records drawn for the get_send_history check

Timestamps == 0..MaxTime
Slots == 1..MaxSlots

----------------------------------------------------------------------------
(* Values *)

\* uuid.uuid4() never returns the empty string; identifiers are 1, 2, ...
\* and 0 stands for None / the empty identifier.
NoId == 0

\* Addresses pydantic's EmailStr accepts; any other token is rejected.
EmailStr == {"a@x.com", "b@x.com", "c@x.com", "d@x.com"}

Min(a, b) == IF a <= b THEN a ELSE b

\* An Optional[List[...]] that is None is modelled as the empty list: the
\* code only ever tests such a field for truthiness.
NoRequest == [to |-> <<>>, cc |-> <<>>, bcc |-> <<>>,
              template_name |-> "", html_body |-> 0]

\* Bodies of POST /email/send, /email/send-html and /email/send-template.
\* html_body is the length of the HTML text (0 when the endpoint has none).
SendBodies ==
    { [to |-> <<"a@x.com">>, cc |-> <<>>, bcc |-> <<>>],
      [to |-> <<"a@x.com", "b@x.com">>, cc |-> <<"c@x.com">>, bcc |-> <<"d@x.com">>],
      [to |-> <<>>, cc |-> <<>>, bcc |-> <<>>],
      [to |-> <<"not-an-address">>, cc |-> <<>>, bcc |-> <<>>],
      [to |-> <<"a@x.com">>, cc |-> <<"not-an-address">>, bcc |-> <<>>] }

RequestTemplateNames == {"welcome", "missing"}
HtmlBodies == {20, 600}

EmailRequests ==
    { [to |-> b.to, cc |-> b.cc, bcc |-> b.bcc, template_name |-> "", html_body |-> 0] :
        b \in SendBodies }
HTMLEmailRequests ==
    { [to |-> b.to, cc |-> b.cc, bcc |-> b.bcc, template_name |-> "", html_body |-> h] :
        b \in SendBodies, h \in HtmlBodies }
TemplateEmailRequests ==
    { [to |-> b.to, cc |-> b.cc, bcc |-> b.bcc, template_name |-> n, html_body |-> 0] :
        b \in SendBodies, n \in RequestTemplateNames }

\* The relay operation that fails in this request ("none": the relay accepts
\* everything).
RelayFaults == {"none", "connect", "starttls", "login", "send_message", "quit"}

\* Authorization header: <<>> when absent, else <<username, password>>.
Credentials == { <<>>, <<"admin", "secret">>, <<"other", "secret">>,
                 <<"admin", "wrong">> }

----------------------------------------------------------------------------
(* Settings and request models *)

\* Configuration surface: the documentation-access secret.
docs_password == "secret"

\* Fields the HTMLEmailRequest model declares.
HTMLEmailRequest == {"to", "subject", "html_body", "text_body", "cc", "bcc",
                     "from_email", "from_name"}

\* Reading an attribute a pydantic model does not declare raises AttributeError.
HasAttr(model, attr) == attr \in model

\* Request-body validation FastAPI runs before the handler: every address of
\* to, cc and bcc must be an EmailStr (List[EmailStr] accepts the empty list).
RANGE(s) == { s[i] : i \in 1..Len(s) }
validate(req) == RANGE(req.to) \cup RANGE(req.cc) \cup RANGE(req.bcc) \subseteq EmailStr

----------------------------------------------------------------------------
(* Persistence gateway *)

\* connect_db: ping the store, then bind the global handle; a failed ping
\* leaves the handle as it was and raises.
connect_db(db, ping_ok) ==
    IF ping_ok THEN [db |-> "connected", raised |-> FALSE]
               ELSE [db |-> db, raised |-> TRUE]

\* disconnect_db: `if _db:` is a truth test of the database object.  With a
\* driver whose database objects are truthy the client is closed and the
\* handle reset; with a driver whose database objects refuse truth testing
\* (NotImplementedError) the exception is caught and logged and the handle
\* stays bound.  None is falsy under both.
disconnect_db(db, truth) ==
    IF db = "none" THEN "none"
    ELSE IF truth = "true" THEN "none"
    ELSE db

\* get_db raises RuntimeError("Database not connected...") on a None handle.
get_db_raises(db) == db = "none"

----------------------------------------------------------------------------
(* SMTP dispatcher *)

\* _create_smtp_client with login() called before starttls().
create_smtp_client_login_first(relay, tls) ==
    LET l1 == <<"connect">>
        l2 == Append(l1, "login")
        l3 == IF tls THEN Append(l2, "starttls") ELSE l2
    IN  IF relay = "connect"
          THEN [exc |-> "SMTPConnectionError", log |-> l1, conn |-> "never"]
        ELSE IF relay = "login"
          THEN [exc |-> "SMTPConnectionError", log |-> l2, conn |-> "open"]
        ELSE IF tls /\ relay = "starttls"
          THEN [exc |-> "SMTPConnectionError", log |-> l3, conn |-> "open"]
        ELSE [exc |-> "", log |-> l3, conn |-> "open"]

\* _create_smtp_client: connect, starttls when configured, login.  Any
\* failure is re-raised as SMTPConnectionError; the client object is dropped
\* without quit() or close(), so a connection that was opened stays open.
create_smtp_client(relay, tls) ==
    LET l1 == <<"connect">>
        l2 == IF tls THEN Append(l1, "starttls") ELSE l1
        l3 == Append(l2, "login")
    IN  IF relay = "connect"
          THEN [exc |-> "SMTPConnectionError", log |-> l1, conn |-> "never"]
        ELSE IF tls /\ relay = "starttls"
          THEN [exc |-> "SMTPConnectionError", log |-> l2, conn |-> "open"]
        ELSE IF relay = "login"
          THEN [exc |-> "SMTPConnectionError", log |-> l3, conn |-> "open"]
        ELSE [exc |-> "", log |-> l3, conn |-> "open"]

\* dispatch, but a failing quit() is reported as a connection failure.
dispatch_quit_503(req, relay, tls, uuid) ==
    LET c == create_smtp_client(relay, tls)
        all_recipients == req.to \o req.cc \o req.bcc
        sent == Append(c.log, "send_message")
        closed == Append(sent, "quit")
    IN  IF c.exc # ""
          THEN [exc |-> c.exc, log |-> c.log, conn |-> c.conn, email_id |-> NoId]
        ELSE IF relay = "send_message" \/ all_recipients = <<>>
          THEN [exc |-> "EmailSendError", log |-> sent, conn |-> "open", email_id |-> NoId]
        ELSE IF relay = "quit"
          THEN [exc |-> "SMTPConnectionError", log |-> closed, conn |-> "open",
                email_id |-> NoId]
        ELSE [exc |-> "", log |-> closed, conn |-> "closed", email_id |-> uuid]

\* dispatch, but a failing quit() is ignored and uuid4() drawn all the same.
dispatch_quit_ignored(req, relay, tls, uuid) ==
    LET c == create_smtp_client(relay, tls)
        all_recipients == req.to \o req.cc \o req.bcc
        sent == Append(c.log, "send_message")
        closed == Append(sent, "quit")
    IN  IF c.exc # ""
          THEN [exc |-> c.exc, log |-> c.log, conn |-> c.conn, email_id |-> NoId]
        ELSE IF relay = "send_message" \/ all_recipients = <<>>
          THEN [exc |-> "EmailSendError", log |-> sent, conn |-> "open", email_id |-> NoId]
        ELSE [exc |-> "", log |-> closed,
              conn |-> IF relay = "quit" THEN "open" ELSE "closed", email_id |-> uuid]

\* The tail shared by send_email and send_html_email: open the client, send
\* the message to To + Cc + Bcc, quit, draw the identifier.  send_message
\* raises when the relay rejects the message and also when the recipient
\* list is empty (no recipient accepted).  SMTPConnectionError passes
\* through; every other exception becomes EmailSendError.
dispatch(req, relay, tls, uuid) ==
    LET c == create_smtp_client(relay, tls)
        all_recipients == req.to \o req.cc \o req.bcc
        sent == Append(c.log, "send_message")
        closed == Append(sent, "quit")
    IN  IF c.exc # ""
          THEN [exc |-> c.exc, log |-> c.log, conn |-> c.conn, email_id |-> NoId]
        ELSE IF relay = "send_message" \/ all_recipients = <<>>
          THEN [exc |-> "EmailSendError", log |-> sent, conn |-> "open", email_id |-> NoId]
        ELSE IF relay = "quit"
          THEN [exc |-> "EmailSendError", log |-> closed, conn |-> "open", email_id |-> NoId]
        ELSE [exc |-> "", log |-> closed, conn |-> "closed", email_id |-> uuid]

\* EmailService.send_email
EmailService_send_email(req, relay, tls, uuid) == dispatch(req, relay, tls, uuid)

\* EmailService.send_html_email: the first statement reads
\* email_request.variables, inside the outer try.
EmailService_send_html_email(req, relay, tls, uuid) ==
    IF ~HasAttr(HTMLEmailRequest, "variables")
      THEN [exc |-> "EmailSendError", log |-> <<>>, conn |-> "never", email_id |-> NoId]
      ELSE dispatch(req, relay, tls, uuid)

\* MongoDBTemplateLoader.get_source is declared `async def`: the call Jinja2's
\* loader makes returns a coroutine object, which it cannot unpack into
\* (source, filename, uptodate).
get_source_is_coroutine == TRUE

HasTemplate(coll, name) == \E i \in 1..Len(coll) : coll[i].name = name

\* Environment.get_template(name) with the MongoDB loader: "TypeError" when
\* the loader hands back a coroutine; otherwise get_source runs and answers
\* TemplateNotFound when the handle is unbound or the name is not stored.
get_template(coll, db, name) ==
    IF get_source_is_coroutine THEN "TypeError"
    ELSE IF get_db_raises(db) \/ ~HasTemplate(coll, name) THEN "TemplateNotFound"
    ELSE "ok"

\* EmailService.send_template_email: only TemplateNotFound becomes
\* TemplateNotFoundError; any other exception of the lookup, and an
\* EmailSendError from send_html_email, becomes EmailSendError.
EmailService_send_template_email(req, relay, tls, uuid, coll, db) ==
    LET t == get_template(coll, db, req.template_name)
    IN  IF t = "TemplateNotFound"
          THEN [exc |-> "TemplateNotFoundError", log |-> <<>>, conn |-> "never",
                email_id |-> NoId]
        ELSE IF t # "ok"
          THEN [exc |-> "EmailSendError", log |-> <<>>, conn |-> "never", email_id |-> NoId]
        ELSE EmailService_send_html_email(req, relay, tls, uuid)

\* EmailService.test_connection: open the client and quit; any exception
\* gives False.
test_connection(relay, tls) ==
    LET c == create_smtp_client(relay, tls)
    IN  IF c.exc # "" THEN [healthy |-> FALSE, log |-> c.log, conn |-> c.conn]
        ELSE IF relay = "quit"
          THEN [healthy |-> FALSE, log |-> Append(c.log, "quit"), conn |-> "open"]
        ELSE [healthy |-> TRUE, log |-> Append(c.log, "quit"), conn |-> "closed"]

\* handle_email_service_exception without its SMTPConnectionError branch.
handle_email_service_exception_no_503(exc) ==
    IF exc = "TemplateNotFoundError"
      THEN [status |-> 404, error |-> "Template not found"]
    ELSE IF exc = "InvalidEmailError"
      THEN [status |-> 400, error |-> "Invalid email"]
    ELSE [status |-> 500, error |-> "Email service error"]

\* handle_email_service_exception
handle_email_service_exception(exc) ==
    IF exc = "SMTPConnectionError"
      THEN [status |-> 503, error |-> "SMTP connection failed"]
    ELSE IF exc = "TemplateNotFoundError"
      THEN [status |-> 404, error |-> "Template not found"]
    ELSE IF exc = "InvalidEmailError"
      THEN [status |-> 400, error |-> "Invalid email"]
    ELSE [status |-> 500, error |-> "Email service error"]

----------------------------------------------------------------------------
(* History recorder *)

PreviewLen == 500

HasRecord(hist, id) == \E i \in 1..Len(hist) : hist[i]._id = id

\* add_email_to_history writing into a collection that keeps only the newest
\* record: the insert drops what was stored.
add_email_to_history_capped(hist, db, to, email_id, template_name, recipients_count, html_body, now, write_ok, uuid) ==
    LET id == IF email_id = NoId THEN uuid ELSE email_id
        item == [_id |-> id,
                 to |-> to,
                 recipients_count |-> IF recipients_count = -1 THEN Len(to)
                                      ELSE recipients_count,
                 timestamp |-> now,
                 status |-> "sent",
                 template_name |-> template_name,
                 html_body_preview |-> Min(html_body, PreviewLen),
                 html_body_full |-> html_body]
    IN  IF get_db_raises(db)
          THEN [history |-> hist, email_id |-> email_id, outcome |-> "no_db"]
        ELSE IF ~write_ok \/ HasRecord(hist, id)
          THEN [history |-> hist, email_id |-> id, outcome |-> "failed"]
        ELSE [history |-> <<item>>, email_id |-> id, outcome |-> "written"]

\* add_email_to_history: builds the record and inserts it.  get_db() on an
\* unbound handle, a failed write and a duplicate _id all raise inside the
\* try; the exception is logged and the identifier returned all the same.
\* recipients_count -1 stands for None; html_body 0 for None or "".
add_email_to_history(hist, db, to, email_id, template_name, recipients_count, html_body, now, write_ok, uuid) ==
    LET id == IF email_id = NoId THEN uuid ELSE email_id
        item == [_id |-> id,
                 to |-> to,
                 recipients_count |-> IF recipients_count = -1 THEN Len(to)
                                      ELSE recipients_count,
                 timestamp |-> now,
                 status |-> "sent",
                 template_name |-> template_name,
                 html_body_preview |-> Min(html_body, PreviewLen),
                 html_body_full |-> html_body]
    IN  IF get_db_raises(db)
          THEN [history |-> hist, email_id |-> email_id, outcome |-> "no_db"]
        ELSE IF ~write_ok \/ HasRecord(hist, id)
          THEN [history |-> hist, email_id |-> id, outcome |-> "failed"]
        ELSE [history |-> Append(hist, item), email_id |-> id, outcome |-> "written"]

\* item["timestamp"].isoformat() and str(item["_id"]): the record as it goes
\* into the JSON answer (identifiers are stored as strings already).
isoformat(t) == [iso |-> t]
serialize(item) == [item EXCEPT !.timestamp = isoformat(item.timestamp)]

Injections(n) == { p \in [1..n -> 1..n] : \A i, j \in 1..n : i # j => p[i] # p[j] }

\* sort_descending with the direction reversed.
sort_ascending(hist) ==
    { [i \in 1..Len(hist) |-> hist[p[i]]] :
        p \in { q \in Injections(Len(hist)) :
                  \A i \in 1..(Len(hist) - 1) :
                      hist[q[i]].timestamp <= hist[q[i + 1]].timestamp } }

\* find().sort("timestamp", DESCENDING): every order of the collection with
\* non-increasing timestamps (the store orders equal timestamps as it likes).
sort_descending(hist) ==
    { [i \in 1..Len(hist) |-> hist[p[i]]] :
        p \in { q \in Injections(Len(hist)) :
                  \A i \in 1..(Len(hist) - 1) :
                      hist[q[i]].timestamp >= hist[q[i + 1]].timestamp } }

\* get_send_history(limit): the answers the call can give.  An exception
\* (get_db() on an unbound handle) is logged and answered with [].
get_send_history(hist, db, limit) ==
    IF get_db_raises(db) THEN { <<>> }
    ELSE { [i \in 1..Min(limit, Len(s)) |-> serialize(s[i])] : s \in sort_descending(hist) }

\* load_history(limit): alias of get_send_history.
load_history(hist, db, limit) == get_send_history(hist, db, limit)

\* get_history_detail(email_id): the serialized record, or None (found FALSE)
\* when no record has this _id or the lookup raised.
get_history_detail(hist, db, email_id) ==
    IF get_db_raises(db) \/ ~HasRecord(hist, email_id)
      THEN [found |-> FALSE, item |-> <<>>]
      ELSE [found |-> TRUE,
            item |-> <<serialize(hist[CHOOSE i \in 1..Len(hist) : hist[i]._id = email_id])>>]

----------------------------------------------------------------------------
(* Controllers of the send endpoints and the health check *)

\* What a handler did and answered; every action fills in its own part.
Blank == [ep |-> "", status |-> 0, success |-> FALSE, email_id |-> NoId,
          error |-> "", req |-> NoRequest, relay |-> "none", exc |-> "",
          log |-> <<>>, conn |-> "never", hist |-> "none", stored |-> FALSE,
          health |-> "", cred |-> <<>>, handler_ran |-> FALSE,
          challenge |-> FALSE, name |-> "", body_name |-> "", content |-> "",
          limit |-> 0, items |-> <<>>, slot |-> 0]

\* The except branches shared by the three controllers: a service exception
\* goes through handle_email_service_exception.
service_error(svc) ==
    LET h == handle_email_service_exception(svc.exc)
    IN  [status |-> h.status, success |-> FALSE, email_id |-> NoId, error |-> h.error,
         exc |-> svc.exc, log |-> svc.log, conn |-> svc.conn, hist |-> "none"]

success_response(svc, outcome) ==
    [status |-> 200, success |-> TRUE, email_id |-> svc.email_id, error |-> "",
     exc |-> "", log |-> svc.log, conn |-> svc.conn, hist |-> outcome]

\* EmailController.send_email with a recorder whose failure reaches the
\* controller's `except Exception`.
EmailController_send_email_history_raises(req, relay, tls, uuid, hist, db, now, write_ok) ==
    LET svc == EmailService_send_email(req, relay, tls, uuid)
        rec == add_email_to_history(hist, db, req.to, svc.email_id, "", -1, 0,
                                    now, write_ok, uuid + 1)
    IN  IF svc.exc # "" THEN [resp |-> service_error(svc), history |-> hist]
        ELSE IF rec.outcome # "written"
          THEN [resp |-> [status |-> 500, success |-> FALSE, email_id |-> NoId,
                          error |-> "Internal server error", exc |-> "Exception",
                          log |-> svc.log, conn |-> svc.conn, hist |-> rec.outcome],
                history |-> hist]
        ELSE [resp |-> success_response(svc, rec.outcome), history |-> rec.history]

\* EmailController.send_email with the recorder called before the outcome of
\* the dispatch is looked at: a failed dispatch is recorded too.
EmailController_send_email_records_failures(req, relay, tls, uuid, hist, db, now, write_ok) ==
    LET svc == EmailService_send_email(req, relay, tls, uuid)
        rec == add_email_to_history(hist, db, req.to, svc.email_id, "", -1, 0,
                                    now, write_ok, uuid + 1)
    IN  IF svc.exc # "" THEN [resp |-> service_error(svc), history |-> rec.history]
        ELSE [resp |-> success_response(svc, rec.outcome), history |-> rec.history]

\* EmailController.send_email: dispatch, record, answer.  The answer carries
\* the dispatcher's identifier, not the recorder's return value.
EmailController_send_email(req, relay, tls, uuid, hist, db, now, write_ok) ==
    LET svc == EmailService_send_email(req, relay, tls, uuid)
        rec == add_email_to_history(hist, db, req.to, svc.email_id, "", -1, 0,
                                    now, write_ok, uuid + 1)
    IN  IF svc.exc # "" THEN [resp |-> service_error(svc), history |-> hist]
        ELSE [resp |-> success_response(svc, rec.outcome), history |-> rec.history]

\* EmailController.send_html_email: after the dispatch the controller reads
\* email_request.template_name and email_request.variables to build the
\* history record; an AttributeError there falls to `except Exception`.
EmailController_send_html_email(req, relay, tls, uuid, hist, db, now, write_ok) ==
    LET svc == EmailService_send_html_email(req, relay, tls, uuid)
        rec == add_email_to_history(hist, db, req.to, svc.email_id, req.template_name,
                                    Len(req.to), req.html_body, now, write_ok, uuid + 1)
    IN  IF svc.exc # "" THEN [resp |-> service_error(svc), history |-> hist]
        ELSE IF ~HasAttr(HTMLEmailRequest, "template_name")
               \/ ~HasAttr(HTMLEmailRequest, "variables")
          THEN [resp |-> [status |-> 500, success |-> FALSE, email_id |-> NoId,
                          error |-> "Internal server error", exc |-> "AttributeError",
                          log |-> svc.log, conn |-> svc.conn, hist |-> "none"],
                history |-> hist]
        ELSE [resp |-> success_response(svc, rec.outcome), history |-> rec.history]

\* EmailController.send_template_email
EmailController_send_template_email(req, relay, tls, uuid, hist, db, now, write_ok, coll) ==
    LET svc == EmailService_send_template_email(req, relay, tls, uuid, coll, db)
        rec == add_email_to_history(hist, db, req.to, svc.email_id, "", -1, 0,
                                    now, write_ok, uuid + 1)
    IN  IF svc.exc # "" THEN [resp |-> service_error(svc), history |-> hist]
        ELSE [resp |-> success_response(svc, rec.outcome), history |-> rec.history]

\* health_check answering 503 when the relay is unhealthy.
EmailController_health_check_503(relay, tls) ==
    LET t == test_connection(relay, tls)
    IN  [status |-> IF t.healthy THEN 200 ELSE 503,
         health |-> IF t.healthy THEN "healthy" ELSE "unhealthy",
         log |-> t.log, conn |-> t.conn]

\* EmailController.health_check: always a HealthResponse, never an error.
EmailController_health_check(relay, tls) ==
    LET t == test_connection(relay, tls)
    IN  [status |-> 200, health |-> IF t.healthy THEN "healthy" ELSE "unhealthy",
         log |-> t.log, conn |-> t.conn]

----------------------------------------------------------------------------
(* Template collection *)

\* Names and contents the management requests carry.
TemplateNames == {"welcome", "promo"}
Contents == {"C", "C2"}

\* The bundled files load_templates_from_files reads, in its order; a file's
\* content is written as the file's name.
template_files == <<"welcome.html", "email_verification.html", "password_reset.html",
                    "newsletter.html", "notification.html", "promotional.html">>

\* filename.replace('.html', '')
strip_html(filename) ==
    CASE filename = "welcome.html" -> "welcome"
      [] filename = "email_verification.html" -> "email_verification"
      [] filename = "password_reset.html" -> "password_reset"
      [] filename = "newsletter.html" -> "newsletter"
      [] filename = "notification.html" -> "notification"
      [] filename = "promotional.html" -> "promotional"

\* os.path.exists(filepath): the bundled files are all present.
files_on_disk == RANGE(template_files)

\* Index of the first document named name, 0 when there is none (find_one,
\* and the document update_one and delete_one act on).
find_one(coll, name) ==
    IF HasTemplate(coll, name)
      THEN CHOOSE i \in 1..Len(coll) :
               coll[i].name = name /\ \A j \in 1..(i - 1) : coll[j].name # name
      ELSE 0

\* update_one({"name": filter}, {"$set": {name, content}}, upsert)
update_one(coll, filter, name, content, upsert) ==
    LET i == find_one(coll, filter)
        doc == [name |-> name, content |-> content]
    IN  IF i # 0 THEN [coll |-> [coll EXCEPT ![i] = doc], matched_count |-> 1]
        ELSE IF upsert THEN [coll |-> Append(coll, doc), matched_count |-> 0]
        ELSE [coll |-> coll, matched_count |-> 0]

\* delete_one({"name": name})
delete_one(coll, name) ==
    LET i == find_one(coll, name)
    IN  IF i = 0 THEN [coll |-> coll, deleted_count |-> 0]
        ELSE [coll |-> SubSeq(coll, 1, i - 1) \o SubSeq(coll, i + 1, Len(coll)),
              deleted_count |-> 1]

RECURSIVE load_files(_, _)
\* The loop of load_templates_from_files over template_files[k..].
load_files(coll, k) ==
    IF k > Len(template_files) THEN coll
    ELSE IF template_files[k] \notin files_on_disk THEN load_files(coll, k + 1)
    ELSE load_files(update_one(coll, strip_html(template_files[k]),
                               strip_html(template_files[k]), template_files[k],
                               TRUE).coll,
                    k + 1)

\* load_templates_from_files: connect_db again, delete_many({}), upsert every
\* bundled file, and in the finally clause disconnect_db.  A failed connect
\* re-raises after the finally clause.
load_templates_from_files(coll, db, ping_ok, truth) ==
    LET c == connect_db(db, ping_ok)
    IN  [templates |-> IF c.raised THEN coll ELSE load_files(<<>>, 1),
         db |-> disconnect_db(c.db, truth),
         raised |-> c.raised]

----------------------------------------------------------------------------
(* Application lifecycle *)

Idle == [name |-> "", content |-> "", cred |-> <<>>]

\* A new process runs startup_event: connect_db (a failure aborts the
\* startup and the process), then load_templates_from_files, whose exception
\* is caught and logged.
startup_event(coll, ping1, ping2, truth) ==
    LET c == connect_db("none", ping1)
        l == load_templates_from_files(coll, c.db, ping2, truth)
    IN  IF c.raised THEN [started |-> FALSE, db |-> "none", templates |-> coll]
        ELSE [started |-> TRUE, db |-> l.db, templates |-> l.templates]

Startup ==
    /\ app = "stopped"
    /\ \E ping1, ping2 \in BOOLEAN :
         LET s == startup_event(email_templates, ping1, ping2, motor_bool)
         IN  /\ app' = IF s.started THEN "running" ELSE "stopped"
             /\ db_handle' = s.db
             /\ email_templates' = s.templates
    /\ last' = Blank
    /\ UNCHANGED <<motor_bool, smtp_use_tls, email_history, next_uuid, creating>>

\* shutdown_event: disconnect_db.  The server runs it once the requests in
\* flight have been answered.
Shutdown ==
    /\ app = "running"
    /\ \A s \in Slots : creating[s] = Idle
    /\ app' = "stopped"
    /\ db_handle' = disconnect_db(db_handle, motor_bool)
    /\ last' = Blank
    /\ UNCHANGED <<motor_bool, smtp_use_tls, email_templates, email_history,
                   next_uuid, creating>>

----------------------------------------------------------------------------
(* Send endpoints and health check *)

\* What FastAPI answers when the body fails validation: the handler never runs.
unprocessable(ep, req) ==
    [Blank EXCEPT !.ep = ep, !.req = req, !.status = 422, !.error = "validation"]

answer(ep, req, relay, r, stored) ==
    [Blank EXCEPT !.ep = ep, !.req = req, !.relay = relay, !.handler_ran = TRUE,
                  !.status = r.status, !.success = r.success, !.email_id = r.email_id,
                  !.error = r.error, !.exc = r.exc, !.log = r.log, !.conn = r.conn,
                  !.hist = r.hist, !.stored = stored]

\* uuid.uuid4() is called exactly when quit() has returned.
drew_uuid(resp) == resp.conn = "closed" /\ "send_message" \in RANGE(resp.log)

\* The clock is read and the store written only by a request whose dispatch
\* returned an identifier.
clock_readings(svc) == IF svc.exc = "" THEN Timestamps ELSE {0}
write_outcomes(svc) == IF svc.exc = "" THEN BOOLEAN ELSE {TRUE}

\* POST /email/send
route_send_email ==
    /\ app = "running"
    /\ next_uuid <= MaxUuid
    /\ \E req \in EmailRequests :
         IF ~validate(req)
           THEN /\ last' = unprocessable("send", req)
                /\ UNCHANGED <<email_history, next_uuid>>
           ELSE \E relay \in RelayFaults :
                  LET svc == EmailService_send_email(req, relay, smtp_use_tls, next_uuid)
                  IN  \E now \in clock_readings(svc), write_ok \in write_outcomes(svc) :
                        LET c == EmailController_send_email(req, relay, smtp_use_tls,
                                     next_uuid, email_history, db_handle, now, write_ok)
                        IN  /\ last' = answer("send", req, relay, c.resp, FALSE)
                            /\ email_history' = c.history
                            /\ next_uuid' = IF drew_uuid(c.resp) THEN next_uuid + 1
                                            ELSE next_uuid
    /\ UNCHANGED <<app, db_handle, motor_bool, smtp_use_tls, email_templates, creating>>

\* POST /email/send-html
route_send_html_email ==
    /\ app = "running"
    /\ next_uuid <= MaxUuid
    /\ \E req \in HTMLEmailRequests :
         IF ~validate(req)
           THEN /\ last' = unprocessable("send-html", req)
                /\ UNCHANGED <<email_history, next_uuid>>
           ELSE \E relay \in RelayFaults :
                  LET svc == EmailService_send_html_email(req, relay, smtp_use_tls,
                                                          next_uuid)
                  IN  \E now \in clock_readings(svc), write_ok \in write_outcomes(svc) :
                        LET c == EmailController_send_html_email(req, relay, smtp_use_tls,
                                     next_uuid, email_history, db_handle, now, write_ok)
                        IN  /\ last' = answer("send-html", req, relay, c.resp, FALSE)
                            /\ email_history' = c.history
                            /\ next_uuid' = IF drew_uuid(c.resp) THEN next_uuid + 1
                                            ELSE next_uuid
    /\ UNCHANGED <<app, db_handle, motor_bool, smtp_use_tls, email_templates, creating>>

\* POST /email/send-template
route_send_template_email ==
    /\ app = "running"
    /\ next_uuid <= MaxUuid
    /\ \E req \in TemplateEmailRequests :
         IF ~validate(req)
           THEN /\ last' = unprocessable("send-template", req)
                /\ UNCHANGED <<email_history, next_uuid>>
           ELSE \E relay \in RelayFaults :
                  LET svc == EmailService_send_template_email(req, relay, smtp_use_tls,
                                 next_uuid, email_templates, db_handle)
                  IN  \E now \in clock_readings(svc), write_ok \in write_outcomes(svc) :
                        LET c == EmailController_send_template_email(req, relay,
                                     smtp_use_tls, next_uuid, email_history, db_handle,
                                     now, write_ok, email_templates)
                        IN  /\ last' = answer("send-template", req, relay, c.resp,
                                              ~get_db_raises(db_handle)
                                                /\ HasTemplate(email_templates,
                                                               req.template_name))
                            /\ email_history' = c.history
                            /\ next_uuid' = IF drew_uuid(c.resp) THEN next_uuid + 1
                                            ELSE next_uuid
    /\ UNCHANGED <<app, db_handle, motor_bool, smtp_use_tls, email_templates, creating>>

\* GET /email/health
route_health_check ==
    /\ app = "running"
    /\ \E relay \in RelayFaults :
         LET h == EmailController_health_check(relay, smtp_use_tls)
         IN  last' = [Blank EXCEPT !.ep = "health", !.relay = relay, !.handler_ran = TRUE,
                                   !.status = h.status, !.health = h.health,
                                   !.log = h.log, !.conn = h.conn]
    /\ UNCHANGED <<app, db_handle, motor_bool, smtp_use_tls, email_templates,
                   email_history, next_uuid, creating>>

----------------------------------------------------------------------------
(* Access guard *)

\* verify_docs_access comparing the username instead of the password.
verify_docs_access_username(cred) ==
    IF cred = <<>> THEN FALSE
    ELSE cred[1] = "admin"

\* verify_docs_access admitting the right password only for the user "admin".
verify_docs_access_admin_only(cred) ==
    IF cred = <<>> THEN FALSE
    ELSE cred[2] = docs_password /\ cred[1] = "admin"

\* verify_docs_access behind HTTPBasic(): a request without an Authorization
\* header is refused by HTTPBasic itself, a supplied password that differs
\* from settings.docs_password by verify_docs_access; both answer 401 with
\* WWW-Authenticate: Basic.  The username is not looked at.
verify_docs_access(cred) ==
    IF cred = <<>> THEN FALSE
    ELSE cred[2] = docs_password

unauthorized(ep, cred) ==
    [Blank EXCEPT !.ep = ep, !.cred = cred, !.status = 401, !.challenge = TRUE,
                  !.error = "Invalid credentials"]

admitted(ep, cred) == [Blank EXCEPT !.ep = ep, !.cred = cred, !.handler_ran = TRUE]

----------------------------------------------------------------------------
(* History endpoints *)

\* The limit GET /api/send-history passes to load_history.
RouteLimit == 50

\* GET /api/send-history
route_get_send_history ==
    /\ app = "running"
    /\ \E cred \in Credentials :
         IF ~verify_docs_access(cred)
           THEN last' = unauthorized("send-history", cred)
           ELSE \E items \in load_history(email_history, db_handle, RouteLimit) :
                  last' = [admitted("send-history", cred) EXCEPT
                             !.status = 200, !.limit = RouteLimit, !.items = items]
    /\ UNCHANGED <<app, db_handle, motor_bool, smtp_use_tls, email_templates,
                   email_history, next_uuid, creating>>

\* GET /api/send-history/{email_id}
route_get_send_history_detail ==
    /\ app = "running"
    /\ \E cred \in Credentials, id \in 1..MaxUuid :
         IF ~verify_docs_access(cred)
           THEN last' = unauthorized("send-history-detail", cred)
           ELSE LET d == get_history_detail(email_history, db_handle, id)
                IN  last' = [admitted("send-history-detail", cred) EXCEPT
                               !.email_id = id,
                               !.status = IF d.found THEN 200 ELSE 404,
                               !.items = d.item]
    /\ UNCHANGED <<app, db_handle, motor_bool, smtp_use_tls, email_templates,
                   email_history, next_uuid, creating>>

----------------------------------------------------------------------------
(* Template management endpoints *)

\* get_template: 500 when get_db() raises, 404 when no document has the
\* name, else the first such document.
get_template_handler(coll, db, name) ==
    IF get_db_raises(db) THEN [status |-> 500, content |-> ""]
    ELSE IF find_one(coll, name) = 0 THEN [status |-> 404, content |-> ""]
    ELSE [status |-> 200, content |-> coll[find_one(coll, name)].content]

\* update_template: one update_one that sets the name and content of the
\* body on the first document named as the path says.
update_template_handler(coll, db, template_name, name, content) ==
    LET u == update_one(coll, template_name, name, content, FALSE)
    IN  IF get_db_raises(db) THEN [status |-> 500, coll |-> coll]
        ELSE IF u.matched_count = 0 THEN [status |-> 404, coll |-> coll]
        ELSE [status |-> 200, coll |-> u.coll]

\* delete_template
delete_template_handler(coll, db, template_name) ==
    LET d == delete_one(coll, template_name)
    IN  IF get_db_raises(db) THEN [status |-> 500, coll |-> coll]
        ELSE IF d.deleted_count = 0 THEN [status |-> 404, coll |-> coll]
        ELSE [status |-> 200, coll |-> d.coll]

\* create_template up to its second await: 500 when get_db() raises, 409
\* when find_one sees the name, else go on to insert_one.
create_template_check(coll, db, name) ==
    IF get_db_raises(db) THEN 500
    ELSE IF find_one(coll, name) # 0 THEN 409
    ELSE 0

InFlight == Cardinality({ s \in Slots : creating[s] # Idle })

\* Documents the management requests can name.
Managed(coll) == Cardinality({ i \in 1..Len(coll) : coll[i].name \in TemplateNames })

\* GET /api/templates
route_get_templates ==
    /\ app = "running"
    /\ \E cred \in Credentials :
         IF ~verify_docs_access(cred)
           THEN last' = unauthorized("templates-list", cred)
           ELSE last' = [admitted("templates-list", cred) EXCEPT
                           !.status = IF get_db_raises(db_handle) THEN 500 ELSE 200]
    /\ UNCHANGED <<app, db_handle, motor_bool, smtp_use_tls, email_templates,
                   email_history, next_uuid, creating>>

\* GET /api/templates/{template_name}
route_get_template ==
    /\ app = "running"
    /\ \E cred \in Credentials, name \in TemplateNames :
         IF ~verify_docs_access(cred)
           THEN last' = unauthorized("templates-get", cred)
           ELSE LET r == get_template_handler(email_templates, db_handle, name)
                IN  last' = [admitted("templates-get", cred) EXCEPT
                               !.name = name, !.status = r.status, !.content = r.content]
    /\ UNCHANGED <<app, db_handle, motor_bool, smtp_use_tls, email_templates,
                   email_history, next_uuid, creating>>

\* POST /api/templates, from the request to the await of insert_one
route_create_template ==
    /\ app = "running"
    /\ Managed(email_templates) + InFlight < MaxDocs
    /\ \E cred \in Credentials, name \in TemplateNames, content \in Contents,
          s \in Slots :
         /\ creating[s] = Idle
         /\ IF ~verify_docs_access(cred)
              THEN /\ last' = unauthorized("templates-create", cred)
                   /\ UNCHANGED creating
              ELSE LET st == create_template_check(email_templates, db_handle, name)
                   IN  /\ last' = [admitted("templates-create", cred) EXCEPT
                                     !.name = name, !.body_name = name,
                                     !.content = content, !.status = st, !.slot = s]
                       /\ creating' = IF st = 0
                                        THEN [creating EXCEPT ![s] =
                                                [name |-> name, content |-> content,
                                                 cred |-> cred]]
                                        ELSE creating
    /\ UNCHANGED <<app, db_handle, motor_bool, smtp_use_tls, email_templates,
                   email_history, next_uuid>>

\* POST /api/templates, insert_one and the answer
create_template_insert ==
    /\ app = "running"
    /\ \E s \in Slots :
         /\ creating[s] # Idle
         /\ email_templates' = Append(email_templates,
                                      [name |-> creating[s].name,
                                       content |-> creating[s].content])
         /\ creating' = [creating EXCEPT ![s] = Idle]
         /\ last' = [admitted("templates-create", creating[s].cred) EXCEPT
                                  !.name = creating[s].name,
                                  !.body_name = creating[s].name,
                                  !.content = creating[s].content,
                                  !.status = 200, !.success = TRUE, !.slot = s]
    /\ UNCHANGED <<app, db_handle, motor_bool, smtp_use_tls, email_history, next_uuid>>

\* PUT /api/templates/{template_name}
route_update_template ==
    /\ app = "running"
    /\ \E cred \in Credentials, template_name \in TemplateNames,
          name \in TemplateNames, content \in Contents :
         IF ~verify_docs_access(cred)
           THEN /\ last' = unauthorized("templates-update", cred)
                /\ UNCHANGED email_templates
           ELSE LET r == update_template_handler(email_templates, db_handle,
                                                 template_name, name, content)
                IN  /\ last' = [admitted("templates-update", cred) EXCEPT
                                  !.name = template_name, !.body_name = name,
                                  !.content = content, !.status = r.status,
                                  !.success = (r.status = 200)]
                    /\ email_templates' = r.coll
    /\ UNCHANGED <<app, db_handle, motor_bool, smtp_use_tls, email_history,
                   next_uuid, creating>>

\* DELETE /api/templates/{template_name}
route_delete_template ==
    /\ app = "running"
    /\ \E cred \in Credentials, template_name \in TemplateNames :
         IF ~verify_docs_access(cred)
           THEN /\ last' = unauthorized("templates-delete", cred)
                /\ UNCHANGED email_templates
           ELSE LET r == delete_template_handler(email_templates, db_handle, template_name)
                IN  /\ last' = [admitted("templates-delete", cred) EXCEPT
                                  !.name = template_name, !.status = r.status,
                                  !.success = (r.status = 200)]
                    /\ email_templates' = r.coll
    /\ UNCHANGED <<app, db_handle, motor_bool, smtp_use_tls, email_history,
                   next_uuid, creating>>

\* GET /docs, /redoc, /openapi.json and /dashboard
ProtectedPages == {"/docs", "/redoc", "/openapi.json", "/dashboard"}

route_protected_page ==
    /\ app = "running"
    /\ \E cred \in Credentials, page \in ProtectedPages :
         IF ~verify_docs_access(cred)
           THEN last' = unauthorized(page, cred)
           ELSE last' = [admitted(page, cred) EXCEPT !.status = 200]
    /\ UNCHANGED <<app, db_handle, motor_bool, smtp_use_tls, email_templates,
                   email_history, next_uuid, creating>>

----------------------------------------------------------------------------
(* Specification *)

\* A process that has not started: the handle is None (module load), the
\* store is empty.  The driver's truth-test behaviour and the TLS flag are
\* fixed per deployment.
Init ==
    /\ app = "stopped"
    /\ db_handle = "none"
    /\ motor_bool \in {"true", "raises"}
    /\ smtp_use_tls \in BOOLEAN
    /\ email_templates = <<>>
    /\ email_history = <<>>
    /\ next_uuid = 1
    /\ creating = [s \in Slots |-> Idle]
    /\ last = Blank

\* The mail side: lifecycle, send endpoints, health check, history reads.
Next ==
    \/ Startup
    \/ Shutdown
    \/ route_send_email
    \/ route_send_html_email
    \/ route_send_template_email
    \/ route_health_check
    \/ route_get_send_history
    \/ route_get_send_history_detail

Spec == Init /\ [][Next]_vars

\* The management side: lifecycle and every access-guarded endpoint.
NextTemplates ==
    \/ Startup
    \/ Shutdown
    \/ route_get_send_history
    \/ route_get_send_history_detail
    \/ route_get_templates
    \/ route_get_template
    \/ route_create_template
    \/ create_template_insert
    \/ route_update_template
    \/ route_delete_template
    \/ route_protected_page

\* The management side never talks to the relay: the TLS flag is left at its
\* default.
InitTemplates == Init /\ smtp_use_tls = TRUE

SpecTemplates == InitTemplates /\ [][NextTemplates]_vars

\* create_template on its own: the lifecycle and POST /api/templates
\* requests, which may overlap between find_one and insert_one.
NextCreate ==
    \/ Startup
    \/ Shutdown
    \/ route_create_template
    \/ create_template_insert

SpecCreate == InitTemplates /\ [][NextCreate]_vars

----------------------------------------------------------------------------
(* get_send_history on its own: any collection of records, any limit *)

\* Histories the recorder can have written: distinct identifiers, any clock
\* readings.
Histories ==
    UNION { { [i \in 1..n |->
                 [_id |-> i, to |-> <<"a@x.com">>, recipients_count |-> 1,
                  timestamp |-> ts[i], status |-> "sent", template_name |-> "",
                  html_body_preview |-> 0, html_body_full |-> 0]] :
              ts \in [1..n -> Timestamps] } : n \in 0..MaxRecords }

InitHistory ==
    /\ app = "running"
    /\ db_handle = "connected"
    /\ motor_bool = "raises"
    /\ smtp_use_tls = TRUE
    /\ email_templates = <<>>
    /\ email_history \in Histories
    /\ next_uuid = MaxRecords + 1
    /\ creating = [s \in Slots |-> Idle]
    /\ last = Blank

call_load_history ==
    /\ \E limit \in 1..MaxLimit :
         \E items \in load_history(email_history, db_handle, limit) :
           last' = [Blank EXCEPT !.ep = "load_history", !.handler_ran = TRUE,
                                 !.limit = limit, !.items = items]
    /\ UNCHANGED <<app, db_handle, motor_bool, smtp_use_tls, email_templates,
                   email_history, next_uuid, creating>>

NextHistory == call_load_history

SpecHistory == InitHistory /\ [][NextHistory]_vars

----------------------------------------------------------------------------
(* Properties *)

SendEndpoints == {"send", "send-html", "send-template"}

\* The latest request is a send request that passed validation.
SendHandled == last.ep \in SendEndpoints /\ last.handler_ran

\* The dispatch of the latest request went through: the log shows connect,
\* the optional starttls, login, send_message and quit, and the session is
\* closed.
DispatchSucceeded ==
    /\ last.conn = "closed"
    /\ last.log = (IF smtp_use_tls THEN <<"connect", "starttls", "login">>
                                   ELSE <<"connect", "login">>)
                  \o <<"send_message", "quit">>

\* The relay refuses connect, the TLS upgrade (when one is made) or login.
ConnectionFault(relay) ==
    \/ relay \in {"connect", "login"}
    \/ smtp_use_tls /\ relay = "starttls"

\* C1: with a relay that accepts everything, a valid request (recipients
\* present; for send-template, the template stored) to each of the three send
\* endpoints ends in 200, success = true and a non-empty email_id.
C1_SendSucceeds ==
    ( /\ SendHandled
      /\ last.req.to # <<>>
      /\ last.relay = "none"
      /\ last.ep = "send-template" => last.stored )
    => (last.status = 200 /\ last.success /\ last.email_id # NoId)

\* C2: for a valid send request on any of the three endpoints, a dispatch
\* that went through gives success = true with a non-empty identifier, and a
\* dispatch that did not go through never gives success = true.
C2_SuccessIffDispatched ==
    SendHandled =>
      /\ DispatchSucceeded => (last.success /\ last.email_id # NoId)
      /\ ~DispatchSucceeded => ~last.success

C2_Witness == last.ep = "send" /\ DispatchSucceeded /\ last.success

\* C3: a send-template request naming a template that is not stored ends in
\* 404 (template not found), not 500, and opens no SMTP connection.
C3_MissingTemplate404 ==
    (last.ep = "send-template" /\ last.handler_ran /\ ~last.stored)
    => (last.status = 404 /\ last.log = <<>>)

\* C4: when the dispatch went through, the answer is 200, success = true and
\* the identifier the dispatcher drew, whether the history write succeeded,
\* failed or found the handle unbound.
C4_HistoryFailureHidden ==
    (SendHandled /\ DispatchSucceeded)
    => /\ last.hist \in {"written", "failed", "no_db"}
       /\ last.status = 200
       /\ last.success
       /\ last.error = ""
       /\ last.email_id = next_uuid - 1

C4_Witness ==
    /\ last.ep = "send"
    /\ DispatchSucceeded
    /\ last.hist \in {"failed", "no_db"}
    /\ last.status = 200

\* C5: the health check always answers 200; status is "healthy" exactly when
\* connect, the optional TLS upgrade, login and quit all went through, and
\* "unhealthy" otherwise; no message is transmitted.
C5_HealthAlways200 ==
    last.ep = "health" =>
      /\ last.status = 200
      /\ last.health \in {"healthy", "unhealthy"}
      /\ last.health = "healthy" <=> (~ConnectionFault(last.relay) /\ last.relay # "quit")
      /\ last.health = "healthy" => last.conn = "closed"
      /\ "send_message" \notin RANGE(last.log)

C5_Witness ==
    /\ last.ep = "health"
    /\ last.relay = "login"
    /\ last.health = "unhealthy"
    /\ last.status = 200

GuardedEndpoints ==
    {"templates-list", "templates-get", "templates-create", "templates-update",
     "templates-delete", "send-history", "send-history-detail"} \cup ProtectedPages

Named(coll, name) == Cardinality({ i \in 1..Len(coll) : coll[i].name = name })

\* C7: round trip.  Once a create request for a name that was not stored has
\* been answered, a fetch of the name returns the created content; after an
\* update of the name a fetch returns the updated content; after a delete of
\* the only document of the name a fetch answers 404.
C7_RoundTrip ==
    LET fetch == get_template_handler(email_templates, db_handle, last.name)
        n == Named(email_templates, last.name)
    IN  /\ (last.ep = "templates-create" /\ last.handler_ran
              /\ \/ last.status = 200 /\ n = 1
                 \/ last.status = 500 /\ n = 0)
           => fetch = [status |-> 200, content |-> last.content]
        /\ (last.ep = "templates-update" /\ last.handler_ran
              /\ last.body_name = last.name /\ last.status = 200)
           => fetch = [status |-> 200, content |-> last.content]
        /\ (last.ep = "templates-delete" /\ last.handler_ran
              /\ last.status = 200 /\ n = 0)
           => fetch.status = 404

\* C8: with n records stored, get_send_history(limit) returns min(n, limit)
\* records, ordered newest first, and no record left out is newer than a
\* record returned.
C8_NewestFirstLimited ==
    last.ep = "load_history" =>
      LET items == last.items
          returned == { items[i]._id : i \in 1..Len(items) }
      IN  /\ Len(items) = Min(Len(email_history), last.limit)
          /\ Cardinality(returned) = Len(items)
          /\ \A i \in 1..Len(items) :
               \E k \in 1..Len(email_history) : items[i] = serialize(email_history[k])
          /\ \A i \in 1..(Len(items) - 1) :
               items[i].timestamp.iso >= items[i + 1].timestamp.iso
          /\ \A k \in 1..Len(email_history) :
               email_history[k]._id \notin returned =>
                 \A i \in 1..Len(items) :
                   items[i].timestamp.iso >= email_history[k].timestamp

C8_Witness ==
    /\ last.ep = "load_history"
    /\ Len(email_history) = 3
    /\ last.limit = 2
    /\ Len(last.items) = 2
    /\ email_history[1].timestamp < email_history[2].timestamp
    /\ email_history[3].timestamp < email_history[1].timestamp
    /\ last.items[1]._id = 2

\* C9: in a send request that reached the dispatcher, a failure of connect,
\* of the TLS upgrade or of login is answered 503 as a connection failure, a
\* failure of the transmission after that is answered 500 as a send failure,
\* and 503 is answered for nothing else.
C9_FailureClasses ==
    (SendHandled /\ last.log # <<>>) =>
      /\ ConnectionFault(last.relay)
           => (last.status = 503 /\ last.error = "SMTP connection failed"
                 /\ last.exc = "SMTPConnectionError")
      /\ (~ConnectionFault(last.relay) /\ last.relay = "send_message")
           => (last.status = 500 /\ last.error = "Email service error"
                 /\ last.exc = "EmailSendError")
      /\ last.status = 503 => ConnectionFault(last.relay)

C9_Witness ==
    /\ last.ep = "send"
    /\ last.relay = "login"
    /\ last.log[Len(last.log)] = "login"
    /\ last.status = 503

\* C10: between the end of the startup event and the shutdown event the
\* database handle is bound: get_db() does not raise.
C10_ConnectedWhileRunning == app = "running" => ~get_db_raises(db_handle)

\* C11: a template created or updated through the management endpoints
\* survives a restart: at a startup, every name whose stored document was
\* written by a management request (its content is one of Contents, not a
\* bundled file) is fetched afterwards with the content it had before.
C11_TemplatesSurviveRestart ==
    [][ (app = "stopped" /\ app' = "running") =>
          \A name \in TemplateNames :
            LET i == find_one(email_templates, name)
            IN  (i # 0 /\ email_templates[i].content \in Contents) =>
                  get_template_handler(email_templates', db_handle', name)
                    = [status |-> 200, content |-> email_templates[i].content] ]_vars

\* C12: the template collection never holds two documents with the same
\* name, whatever create, update and delete requests were handled.
C12_UniqueNames ==
    \A i, j \in 1..Len(email_templates) :
      i # j => email_templates[i].name # email_templates[j].name

\* C13: when only create requests are made, overlapping or not, a create
\* request is answered 200 only when it stored the one document of its name:
\* of two requests for the same new name one gets 200 and the other 409.
C13_OneCreateWins ==
    (last.ep = "templates-create" /\ last.handler_ran /\ last.status = 200)
    => Named(email_templates, last.name) = 1

\* The relay operations of a send request, in the order the code makes them.
RelaySequence ==
    (IF smtp_use_tls THEN <<"connect", "starttls", "login">>
                     ELSE <<"connect", "login">>) \o <<"send_message", "quit">>

IsPrefix(s, t) == Len(s) <= Len(t) /\ SubSeq(t, 1, Len(s)) = s

\* C14: the relay operations of one send request are a prefix of connect,
\* starttls (when TLS is configured), login, send_message, quit: the upgrade
\* precedes login, login precedes the transmission, no operation is made
\* twice, and nothing is attempted after the operation that failed.
C14_RelayOrderNoRetry ==
    SendHandled =>
      /\ IsPrefix(last.log, RelaySequence)
      /\ last.relay \in RANGE(last.log) => last.log[Len(last.log)] = last.relay

C14_Witness ==
    /\ last.ep = "send"
    /\ smtp_use_tls
    /\ last.relay = "send_message"
    /\ last.log = <<"connect", "starttls", "login", "send_message">>
    /\ last.status = 500

\* C15: a request that opened an SMTP connection (a send request or the
\* health check) has closed it when it returns, whether the request
\* succeeded or the TLS upgrade, login or transmission failed.  Send requests
\* are taken with recipients, so that a failure is the relay's.
C15_ConnectionsClosed ==
    ( /\ last.handler_ran
      /\ \/ last.ep \in SendEndpoints /\ last.req.to # <<>>
         \/ last.ep = "health" )
    => last.conn # "open"

\* C16: a send request changes the history collection only by appending one
\* record, only when its dispatch went through and was answered with
\* success, and the record's _id is the email_id of the answer; a request
\* whose dispatch did not go through leaves the collection as it was.
C16_RecordAfterDispatch ==
    [][ last'.ep \in SendEndpoints =>
          /\ \/ email_history' = email_history
             \/ /\ Len(email_history') = Len(email_history) + 1
                /\ SubSeq(email_history', 1, Len(email_history)) = email_history
                /\ email_history'[Len(email_history')]._id = last'.email_id
                /\ last'.email_id # NoId
                /\ last'.success
                /\ DispatchSucceeded'
          /\ ~DispatchSucceeded' => email_history' = email_history ]_vars

C16_Witness ==
    /\ last.ep = "send"
    /\ DispatchSucceeded
    /\ last.hist = "written"
    /\ email_history # <<>>
    /\ email_history[Len(email_history)]._id = last.email_id

\* C17: history records are immutable: every record of the collection is in
\* the collection, with the same fields, after any step (a send request,
\* a history read, a restart).
C17_HistoryImmutable ==
    [][ \A k \in 1..Len(email_history) :
          \E j \in 1..Len(email_history') : email_history'[j] = email_history[k] ]_vars

C17_Witness ==
    /\ last.ep = "send"
    /\ last.hist = "written"
    /\ Len(email_history) = 2
    /\ email_history[1]._id # last.email_id
    /\ email_history[2]._id = last.email_id

\* C18: validation gates dispatch: a send request whose recipient list is
\* empty or which carries a malformed address in to, cc or bcc is rejected
\* before its handler runs: no SMTP operation is made and no history record
\* written.
C18_ValidationGatesDispatch ==
    (last.ep \in SendEndpoints /\ (last.req.to = <<>> \/ ~validate(last.req)))
    => (~last.handler_ran /\ last.log = <<>> /\ last.hist = "none")

WriteEndpoints == {"templates-create", "templates-update", "templates-delete"}

\* One step of a template-management request, seen against the collection
\* the request found: a create of a stored name is answered 409 at its
\* existence check, an update or delete of an absent name 404, and a request
\* answered 409 or 404 leaves the collection as it was.
RejectedLeavesUnchanged ==
    (last'.ep \in WriteEndpoints /\ last'.handler_ran) =>
      /\ ( /\ last'.ep = "templates-create"
           /\ last'.status # 200
           /\ HasTemplate(email_templates, last'.name) )
         => (last'.status = 409 /\ email_templates' = email_templates)
      /\ ( /\ last'.ep \in {"templates-update", "templates-delete"}
           /\ ~HasTemplate(email_templates, last'.name) )
         => (last'.status = 404 /\ email_templates' = email_templates)
      /\ last'.status \in {404, 409} => email_templates' = email_templates

\* C20: a rejected template-management request leaves the collection
\* unchanged: creating a stored name answers 409, updating or deleting an
\* absent name answers 404, and the stored templates and their contents are
\* the same before and after.
C20_RejectedLeavesUnchanged == [][RejectedLeavesUnchanged]_vars

\* C21: when the relay accepted the message and quit() then fails, the
\* request is answered 500 as a send failure, without an identifier, no
\* identifier is drawn and no history record is written, although the
\* message was transmitted.
C21_QuitFailureIsSendFailure ==
    [][ ( /\ last'.ep \in SendEndpoints
          /\ last'.handler_ran
          /\ last'.relay = "quit"
          /\ last'.log # <<>>
          /\ last'.log[Len(last'.log)] = "quit" )
        => /\ "send_message" \in RANGE(last'.log)
           /\ last'.status = 500
           /\ last'.error = "Email service error"
           /\ last'.exc = "EmailSendError"
           /\ ~last'.success
           /\ last'.email_id = NoId
           /\ next_uuid' = next_uuid
           /\ email_history' = email_history ]_vars

C21_Witness ==
    /\ last.ep = "send"
    /\ last.relay = "quit"
    /\ last.log = RelaySequence
    /\ last.status = 500
    /\ last.email_id = NoId

====
